---- MODULE Spec2Model ----
(***************************************************************************)
(* AnkiBlur: a model of the two programs of the repository.                *)
(*                                                                         *)
(*   patches/anki_webview_addon/ankiblur_background_theme/__init__.py      *)
(*       the overlay addon: configuration load and migration, theme        *)
(*       resolution, the three style injections, the settings dialog       *)
(*       (specification Spec);                                             *)
(*   scripts/check_anki_updates.py                                         *)
(*       the release-check script (specification ScriptSpec).              *)
(*                                                                         *)
(* Python values are modelled structurally: a dict is a function whose     *)
(* DOMAIN is its set of keys, a str that the code slices or strips is a    *)
(* sequence of one-character strings, None is the record None.             *)
(***************************************************************************)
EXTENDS Integers, Sequences, FiniteSets, TLC

VARIABLES
    \* ---- the addon and its host ----
    phase,            \* "unloaded" before `overlay = TransparentOverlay()`, then "running"
    config,           \* overlay.config, the in-memory config (None before construction)
    stored,           \* what mw.addonManager.getConfig(__name__) returns: the persisted store
    night_mode,       \* theme_manager.night_mode
    mw_web,           \* whether the host has a main webview (hasattr(mw, 'web') and mw.web)
    document_head,    \* style elements the scripts appended to the main webview's document.head
    web_content_head, \* web_content.head of the content request just handled (<<>> when none)
    shown,            \* the showInfo notices shown so far, in order
    writes,           \* number of mw.addonManager.writeConfig calls so far
    event,            \* the handler that ran last
    finished_events,  \* finished-screen events the current document has seen
    \* ---- the release-check script and its environment ----
    pc,               \* "start" before a run of main(), "done" after it returned or exited
    now,              \* datetime.now(), in hours
    check_file,       \* CHECK_FILE (.last-check)
    force_check,      \* the run's FORCE_CHECK: os.environ.get(...).lower() == 'true'
    io_errors,        \* the file operations that raise IOError in the run
    version_file,     \* VERSION_FILE (configs/version-mapping.json) as the run finds it
    response,         \* what the run's release request yields
    outputs,          \* the run's completed set_github_output(name, value) calls, in order
    requested,        \* whether the run made the release request
    marked,           \* whether the run rewrote CHECK_FILE
    error,            \* the exception that ended the run ("none": main returned)
    exit_status       \* the run's exit status (-1 while it has not ended)

addon_vars == <<phase, config, stored, night_mode, mw_web, document_head,
                web_content_head, shown, writes, event, finished_events>>

script_vars == <<pc, now, check_file, force_check, io_errors, version_file, response,
                 outputs, requested, marked, error, exit_status>>

vars == <<addon_vars, script_vars>>

(***************************************************************************)
(* Python values                                                           *)
(***************************************************************************)

None == [NoneType |-> TRUE]

\* {} : the dict with no keys
EmptyDict == [k \in {} |-> None]

\* d.get(key, default)
Get(d, key, default) == IF key \in DOMAIN d THEN d[key] ELSE default

\* s[lo:hi] of a str (0-based, hi exclusive, clipped to the string as Python clips)
Slice(s, lo, hi) ==
    LET h == IF hi > Len(s) THEN Len(s) ELSE hi
    IN  IF lo >= h THEN <<>> ELSE SubSeq(s, lo + 1, h)

HexDigits == <<"0", "1", "2", "3", "4", "5", "6", "7", "8", "9",
               "a", "b", "c", "d", "e", "f">>

UpperHexDigits == <<"0", "1", "2", "3", "4", "5", "6", "7", "8", "9",
                    "A", "B", "C", "D", "E", "F">>

HexChars == {HexDigits[i] : i \in 1..16} \cup {UpperHexDigits[i] : i \in 1..16}

IsHexDigit(c) == c \in HexChars

\* the value of each hex digit, in either case
HexDigitValue ==
    [c \in HexChars |->
        (CHOOSE i \in 1..16 : HexDigits[i] = c \/ UpperHexDigits[i] = c) - 1]

\* the result of int(s, 16) when it raises ValueError
ValueError == 0 - 1

\* int(s, 16) for a string of hex digits; ValueError for '' and for any other character
RECURSIVE Int16(_)
Int16(s) ==
    IF s = <<>> \/ \E i \in 1..Len(s) : ~IsHexDigit(s[i])
    THEN ValueError
    ELSE IF Len(s) = 1
         THEN HexDigitValue[s[1]]
         ELSE 16 * Int16(SubSeq(s, 1, Len(s) - 1)) + HexDigitValue[s[Len(s)]]

(***************************************************************************)
(* Colours and configs                                                     *)
(***************************************************************************)

White == <<"#", "f", "f", "f", "f", "f", "f">>   \* "#ffffff"
Black == <<"#", "0", "0", "0", "0", "0", "0">>   \* "#000000"
Navy  == <<"#", "1", "a", "2", "b", "3", "c">>   \* "#1a2b3c"
Plum  == <<"#", "8", "0", "4", "0", "c", "0">>   \* "#8040c0"

DefaultLightAlpha == 15
DefaultDarkAlpha == 30

\* the default config of __init__.py:19-22 (and 205-208)
DefaultConfig ==
    [light_theme |-> [color |-> White, alpha |-> DefaultLightAlpha],
     dark_theme  |-> [color |-> Black, alpha |-> DefaultDarkAlpha]]

MigrationNotice == "Transparent Overlay: Updated to support separate Dark/Light theme colors!"
RestartNotice == "Color overlay settings updated! Restart Anki to see the changes."

\* ---- the persisted values the model starts from ----
LegacyColors == {Navy}
LegacyAlphas == {50}
StoredLightThemes == {[color |-> Navy, alpha |-> 50], [alpha |-> 20]}
StoredDarkThemes == {[color |-> Navy, alpha |-> 50], [color |-> Plum]}

ConfigKeys == {"color", "alpha", "light_theme", "dark_theme"}

\* every dict over a subset of the four keys, with values of the key's type
StoredDicts ==
    UNION { { [k \in K |-> CASE k = "color" -> c
                             [] k = "alpha" -> a
                             [] k = "light_theme" -> l
                             [] k = "dark_theme" -> d] :
                c \in (IF "color" \in K THEN LegacyColors ELSE {Black}),
                a \in (IF "alpha" \in K THEN LegacyAlphas ELSE {0}),
                l \in (IF "light_theme" \in K THEN StoredLightThemes ELSE {EmptyDict}),
                d \in (IF "dark_theme" \in K THEN StoredDarkThemes ELSE {EmptyDict}) } :
            K \in SUBSET ConfigKeys }

StoredValues == {None} \cup StoredDicts

(***************************************************************************)
(* TransparentOverlay                                                      *)
(***************************************************************************)

\* mutant: the light theme takes the legacy colour too
migrate_light_from_old_color(cfg) ==
    IF cfg = None
    THEN [config |-> DefaultConfig, write |-> FALSE, notice |-> FALSE]
    ELSE IF "color" \in DOMAIN cfg /\ "alpha" \in DOMAIN cfg
         THEN [config |-> [light_theme |-> [color |-> cfg.color, alpha |-> cfg.alpha],
                           dark_theme  |-> [color |-> cfg.color, alpha |-> cfg.alpha]],
               write |-> TRUE, notice |-> TRUE]
         ELSE [config |-> cfg, write |-> FALSE, notice |-> FALSE]

\* mutant: the two theme keys are added to the legacy dict instead of replacing it
migrate_keeps_legacy_keys(cfg) ==
    IF cfg = None
    THEN [config |-> DefaultConfig, write |-> FALSE, notice |-> FALSE]
    ELSE IF "color" \in DOMAIN cfg /\ "alpha" \in DOMAIN cfg
         THEN [config |->
                  [k \in DOMAIN cfg \cup {"light_theme", "dark_theme"} |->
                      IF k = "light_theme" THEN [color |-> White, alpha |-> cfg.alpha]
                      ELSE IF k = "dark_theme" THEN [color |-> cfg.color, alpha |-> cfg.alpha]
                      ELSE cfg[k]],
               write |-> TRUE, notice |-> TRUE]
         ELSE [config |-> cfg, write |-> FALSE, notice |-> FALSE]

\* mutant: the default is written back when the store is empty
migrate_writes_default(cfg) ==
    IF cfg = None
    THEN [config |-> DefaultConfig, write |-> TRUE, notice |-> FALSE]
    ELSE IF "color" \in DOMAIN cfg /\ "alpha" \in DOMAIN cfg
         THEN [config |-> [light_theme |-> [color |-> White, alpha |-> cfg.alpha],
                           dark_theme  |-> [color |-> cfg.color, alpha |-> cfg.alpha]],
               write |-> TRUE, notice |-> TRUE]
         ELSE [config |-> cfg, write |-> FALSE, notice |-> FALSE]

\* migrate_config_if_needed: the config it leaves in self.config, whether it
\* called writeConfig with that config, and whether it called showInfo
migrate_config_if_needed(cfg) ==
    IF cfg = None
    THEN [config |-> DefaultConfig, write |-> FALSE, notice |-> FALSE]
    ELSE IF "color" \in DOMAIN cfg /\ "alpha" \in DOMAIN cfg
         THEN LET old_color == Get(cfg, "color", Black)
                  old_alpha == Get(cfg, "alpha", DefaultDarkAlpha)
              IN  [config |-> [light_theme |-> [color |-> White, alpha |-> old_alpha],
                               dark_theme  |-> [color |-> old_color, alpha |-> old_alpha]],
                   write |-> TRUE, notice |-> TRUE]
         ELSE [config |-> cfg, write |-> FALSE, notice |-> FALSE]

\* raised by None.get(...): 'NoneType' object has no attribute 'get'
AttributeError == [raised |-> "AttributeError"]

\* mutant: one fallback for both themes
get_current_theme_config_dark_fallback(cfg, is_dark) ==
    LET theme_key == IF is_dark THEN "dark_theme" ELSE "light_theme"
        fallback  == [color |-> Black, alpha |-> DefaultDarkAlpha]
    IN  IF cfg = None THEN AttributeError ELSE Get(cfg, theme_key, fallback)

\* get_current_theme_config, with theme_manager.night_mode as is_dark
get_current_theme_config(cfg, is_dark) ==
    LET theme_key == IF is_dark THEN "dark_theme" ELSE "light_theme"
        fallback  == [color |-> IF is_dark THEN Black ELSE White,
                      alpha |-> IF is_dark THEN DefaultDarkAlpha ELSE DefaultLightAlpha]
    IN  IF cfg = None THEN AttributeError ELSE Get(cfg, theme_key, fallback)

\* the r, g, b and alpha that the three injectors format into
\* "rgba({r}, {g}, {b}, {alpha/100})"; alpha stands for the fraction alpha/100
background_color(theme_config) ==
    LET color == Get(theme_config, "color", Black)
        alpha == Get(theme_config, "alpha", DefaultDarkAlpha)
    IN  [r |-> Int16(Slice(color, 1, 3)),
         g |-> Int16(Slice(color, 3, 5)),
         b |-> Int16(Slice(color, 5, 7)),
         alpha |-> alpha]

\* int(..., 16) raised in one of the three conversions
Raises(rgba) == ValueError \in {rgba.r, rgba.g, rgba.b}

ThemeStyleId == "transparent-overlay-theme-style"
NoId == ""

\* document.getElementById(id).remove(): the first element with that id is removed
RECURSIVE RemoveById(_, _)
RemoveById(head, id) ==
    IF head = <<>> THEN <<>>
    ELSE IF Head(head).id = id THEN Tail(head)
         ELSE <<Head(head)>> \o RemoveById(Tail(head), id)

\* mutant: the existing theme style element is not removed
theme_style_script_no_remove(head, rgba) ==
    Append(head, [id |-> ThemeStyleId, textContent |-> rgba])

\* the script of inject_current_theme_style, run on a document head
theme_style_script(head, rgba) ==
    Append(RemoveById(head, ThemeStyleId), [id |-> ThemeStyleId, textContent |-> rgba])

\* the script of inject_finished_screen_style, run on a document head
finished_screen_script(head, rgba) ==
    Append(head, [id |-> NoId, textContent |-> rgba])

\* the <style> block inject_overlay appends to web_content.head
background_css(rgba) == [html_background_color |-> rgba]

(***************************************************************************)
(* ColorConfigDialog                                                       *)
(***************************************************************************)

\* an invalid QColor (also what a cancelled QColorDialog.getColor returns)
InvalidColor == [valid |-> FALSE, r |-> 0, g |-> 0, b |-> 0]

\* QColor(name) for the "#RRGGBB" form; any other string of the model is invalid
QColor(name) ==
    IF Len(name) = 7 /\ name[1] = "#" /\ \A i \in 2..7 : IsHexDigit(name[i])
    THEN [valid |-> TRUE,
          r |-> Int16(Slice(name, 1, 3)),
          g |-> Int16(Slice(name, 3, 5)),
          b |-> Int16(Slice(name, 5, 7))]
    ELSE InvalidColor

Hex2(n) == <<HexDigits[(n \div 16) + 1], HexDigits[(n % 16) + 1]>>

\* QColor.name(): "#rrggbb" in lower case; an invalid colour is "#000000"
QColor_name(c) == <<"#">> \o Hex2(c.r) \o Hex2(c.g) \o Hex2(c.b)

SliderMinimum == 0
SliderMaximum == 100

\* QSlider.setValue after setRange(0, 100): the value is bounded to the range
QSlider_setValue(v) ==
    IF v < SliderMinimum THEN SliderMinimum
    ELSE IF v > SliderMaximum THEN SliderMaximum ELSE v

\* create_theme_tab: the tab's current_color and alpha_slider
create_theme_tab(dialog_config, theme_key) ==
    LET theme_config == Get(dialog_config, theme_key,
                            [color |-> Black, alpha |-> DefaultDarkAlpha])
    IN  [current_color |-> QColor(Get(theme_config, "color", Black)),
         alpha_slider  |-> QSlider_setValue(Get(theme_config, "alpha", DefaultDarkAlpha))]

\* setup_ui: `getConfig(__name__) or {default}` (None and {} are both falsy), then the two tabs
setup_ui(persisted) ==
    LET dialog_config == IF persisted = None \/ persisted = EmptyDict
                         THEN DefaultConfig ELSE persisted
    IN  [light_tab |-> create_theme_tab(dialog_config, "light_theme"),
         dark_tab  |-> create_theme_tab(dialog_config, "dark_theme")]

\* choose_color: the tab keeps its colour unless the picked colour is valid
choose_color(tab, picked) ==
    IF picked.valid THEN [tab EXCEPT !.current_color = picked] ELSE tab

NoMove == 0 - 1

\* the user dragging the slider (NoMove: the slider is left alone)
move_slider(tab, v) ==
    IF v = NoMove THEN tab ELSE [tab EXCEPT !.alpha_slider = QSlider_setValue(v)]

\* mutant: the dialog returns the light tab in the legacy flat shape
get_config_flat(dialog) ==
    [color |-> QColor_name(dialog.light_tab.current_color),
     alpha |-> dialog.light_tab.alpha_slider]

\* get_config
get_config(dialog) ==
    [light_theme |-> [color |-> QColor_name(dialog.light_tab.current_color),
                      alpha |-> dialog.light_tab.alpha_slider],
     dark_theme  |-> [color |-> QColor_name(dialog.dark_tab.current_color),
                      alpha |-> dialog.dark_tab.alpha_slider]]

(***************************************************************************)
(* The addon's events                                                      *)
(***************************************************************************)

MaxStyles == 2        \* finished-screen events per document
MaxAccepts == 1       \* accepted settings dialogs

\* what the user does in one dialog: per tab, the colour picked in QColorDialog
\* (InvalidColor: none picked) and the value the slider is dragged to (NoMove: none)
NoEdits == [light_pick |-> InvalidColor, light_move |-> NoMove,
            dark_pick |-> InvalidColor, dark_move |-> NoMove]

DialogEdits ==
    {NoEdits,
     [NoEdits EXCEPT !.light_pick = QColor(Plum)],
     [NoEdits EXCEPT !.dark_move = 20],
     [NoEdits EXCEPT !.light_move = 20, !.dark_pick = QColor(Plum)]}

Accepts == Cardinality({i \in 1..Len(shown) : shown[i] = RestartNotice})

script_parked ==
    /\ pc = "parked"
    /\ now = 0
    /\ check_file = None
    /\ force_check = FALSE
    /\ io_errors = {}
    /\ version_file = None
    /\ response = None
    /\ outputs = <<>>
    /\ requested = FALSE
    /\ marked = FALSE
    /\ error = "none"
    /\ exit_status = 0 - 1

AddonInit ==
    /\ phase = "unloaded"
    /\ config = None
    /\ stored \in StoredValues
    /\ night_mode \in BOOLEAN
    /\ mw_web \in BOOLEAN
    /\ document_head = <<>>
    /\ web_content_head = <<>>
    /\ shown = <<>>
    /\ writes = 0
    /\ event = "none"
    /\ finished_events = 0

\* overlay = TransparentOverlay(): __init__ reads the store and migrates
TransparentOverlay_init ==
    /\ phase = "unloaded"
    /\ LET m == migrate_config_if_needed(stored)
       IN  /\ config' = m.config
           /\ stored' = IF m.write THEN m.config ELSE stored
           /\ writes' = IF m.write THEN writes + 1 ELSE writes
           /\ shown' = IF m.notice THEN Append(shown, MigrationNotice) ELSE shown
    /\ phase' = "running"
    /\ event' = "init"
    /\ UNCHANGED <<night_mode, mw_web, document_head, web_content_head,
                   finished_events>>
    /\ UNCHANGED script_vars

\* webview_will_set_content -> inject_overlay(web_content, context), for a
\* web_content whose head is still empty
inject_overlay ==
    /\ phase = "running"
    /\ LET rgba == background_color(get_current_theme_config(config, night_mode))
       IN  web_content_head' = IF Raises(rgba) THEN <<>> ELSE <<background_css(rgba)>>
    /\ event' = "content_request"
    /\ UNCHANGED <<phase, config, stored, night_mode, mw_web, document_head, shown,
                   writes, finished_events>>
    /\ UNCHANGED script_vars

\* the host switches to night mode `mode` and fires theme_did_change ->
\* on_theme_change -> inject_current_theme_style
on_theme_change(mode) ==
    /\ phase = "running"
    /\ night_mode' = mode
    /\ LET rgba == background_color(get_current_theme_config(config, mode))
       IN  document_head' = IF mw_web /\ ~Raises(rgba)
                            THEN theme_style_script(document_head, rgba)
                            ELSE document_head
    /\ event' = "theme_change"
    /\ web_content_head' = <<>>
    /\ UNCHANGED <<phase, config, stored, mw_web, shown, writes, finished_events>>
    /\ UNCHANGED script_vars

\* Overview._show_finished_screen, wrapped: inject_finished_screen_style runs
\* after it, on the main webview the overview is shown in
inject_finished_screen_style ==
    /\ phase = "running"
    /\ mw_web
    /\ finished_events < MaxStyles
    /\ finished_events' = finished_events + 1
    /\ LET rgba == background_color(get_current_theme_config(config, night_mode))
       IN  document_head' = IF Raises(rgba) THEN document_head
                            ELSE finished_screen_script(document_head, rgba)
    /\ event' = "finished_screen"
    /\ web_content_head' = <<>>
    /\ UNCHANGED <<phase, config, stored, night_mode, mw_web, shown, writes>>
    /\ UNCHANGED script_vars

\* the dialog of on_config when the user closes it: built from the store, then
\* edited by the user's colour picks and slider moves
edited_dialog(persisted, edits) ==
    LET d == setup_ui(persisted)
    IN  [light_tab |-> move_slider(choose_color(d.light_tab, edits.light_pick),
                                   edits.light_move),
         dark_tab  |-> move_slider(choose_color(d.dark_tab, edits.dark_pick),
                                   edits.dark_move)]

\* mutant: the accepted config is not written to the store
on_config_accepted_no_write(edits) ==
    /\ phase = "running"
    /\ Accepts < MaxAccepts
    /\ config' = get_config(edited_dialog(stored, edits))
    /\ writes' = writes
    /\ shown' = Append(shown, RestartNotice)
    /\ event' = "settings_accepted"
    /\ web_content_head' = <<>>
    /\ UNCHANGED <<phase, stored, night_mode, mw_web, document_head, finished_events>>
    /\ UNCHANGED script_vars

\* on_config, the dialog accepted (dialog.exec() is true)
on_config_accepted(edits) ==
    /\ phase = "running"
    /\ Accepts < MaxAccepts
    /\ LET dialog == edited_dialog(stored, edits)
       IN  /\ config' = get_config(dialog)
           /\ stored' = get_config(dialog)
    /\ writes' = writes + 1
    /\ shown' = Append(shown, RestartNotice)
    /\ event' = "settings_accepted"
    /\ web_content_head' = <<>>
    /\ UNCHANGED <<phase, night_mode, mw_web, document_head, finished_events>>
    /\ UNCHANGED script_vars

\* on_config, the dialog cancelled (dialog.exec() is false)
on_config_cancelled ==
    /\ phase = "running"
    /\ event' = "settings_cancelled"
    /\ web_content_head' = <<>>
    /\ UNCHANGED <<phase, config, stored, night_mode, mw_web, document_head, shown,
                   writes, finished_events>>
    /\ UNCHANGED script_vars

\* the host is restarted: the addon module is loaded again (line 349), with a
\* new overlay object and new documents; the store and what the user saw remain
Restart ==
    /\ phase = "running"
    /\ phase' = "unloaded"
    /\ config' = None
    /\ document_head' = <<>>
    /\ web_content_head' = <<>>
    /\ finished_events' = 0
    /\ event' = "none"
    /\ UNCHANGED <<stored, night_mode, mw_web, shown, writes>>
    /\ UNCHANGED script_vars

Init == AddonInit /\ script_parked

Next ==
    \/ TransparentOverlay_init
    \/ inject_overlay
    \/ \E mode \in BOOLEAN : on_theme_change(mode)
    \/ inject_finished_screen_style
    \/ \E edits \in DialogEdits : on_config_accepted(edits)
    \/ on_config_cancelled
    \/ Restart

Spec == Init /\ [][Next]_vars

(***************************************************************************)
(* The addon's properties                                                  *)
(***************************************************************************)

\* the step construction takes: line 349, __init__ and with it the migration
InitStep == phase = "unloaded" /\ phase' = "running"

\* the legacy shape: both `color` and `alpha` at the top level
LegacyShape(cfg) == cfg # None /\ {"color", "alpha"} \subseteq DOMAIN cfg

\* the new shape: both theme keys and neither legacy key
NewShape(cfg) ==
    /\ cfg # None
    /\ {"light_theme", "dark_theme"} \subseteq DOMAIN cfg
    /\ "color" \notin DOMAIN cfg
    /\ "alpha" \notin DOMAIN cfg

StylesWithId(head, id) == {i \in 1..Len(head) : head[i].id = id}

\* C1: construction from a persisted config with both `color` (C) and `alpha`
\* (A) leaves exactly {light_theme: {"#ffffff", A}, dark_theme: {C, A}} in
\* memory, writes that value to the store (one writeConfig call) and shows
\* the migration notice once; the light colour is white whatever C is.
C1_LegacyMigration ==
    [][(InitStep /\ LegacyShape(stored)) =>
         /\ config' = [light_theme |-> [color |-> White, alpha |-> stored.alpha],
                       dark_theme  |-> [color |-> stored.color, alpha |-> stored.alpha]]
         /\ config'.light_theme.color # stored.color
         /\ stored' = config'
         /\ writes' = writes + 1
         /\ shown' = Append(shown, MigrationNotice)]_vars

C1_Witness ==
    /\ event = "init"
    /\ shown = <<MigrationNotice>>
    /\ writes = 1
    /\ config = [light_theme |-> [color |-> White, alpha |-> 50],
                 dark_theme  |-> [color |-> Navy, alpha |-> 50]]
    /\ stored = config

\* C2: migration is idempotent. Construction from a new-shape config keeps
\* it unchanged in memory, writes nothing and shows nothing; and migrating
\* the config that a migration left (from an absent, legacy or any other
\* persisted value) gives that config again, with no write and no notice.
C2_MigrationIdempotent ==
    /\ [][(InitStep /\ NewShape(stored)) =>
            /\ config' = stored
            /\ stored' = stored
            /\ writes' = writes
            /\ shown' = shown]_vars
    /\ [](event = "init" =>
            migrate_config_if_needed(config) =
                [config |-> config, write |-> FALSE, notice |-> FALSE])

C2_Witness ==
    /\ event = "init"
    /\ NewShape(config)
    /\ stored = config
    /\ shown = <<>>
    /\ writes = 0

\* C3: construction with nothing persisted (getConfig returns None) leaves
\* the default config in memory and the store untouched: no writeConfig
\* call, no notice.
C3_AbsentGivesDefault ==
    [][(InitStep /\ stored = None) =>
         /\ config' = [light_theme |-> [color |-> White, alpha |-> 15],
                       dark_theme  |-> [color |-> Black, alpha |-> 30]]
         /\ stored' = None
         /\ writes' = writes
         /\ shown' = shown]_vars

C3_Witness ==
    /\ event = "init"
    /\ stored = None
    /\ config = DefaultConfig
    /\ writes = 0
    /\ shown = <<>>

\* C4 as claimed: whatever was persisted, after construction the in-memory
\* config always has both theme keys and neither legacy key.
C4_AlwaysNewShape == phase = "running" => NewShape(config)

\* C4 as amended: construction establishes the new shape when the persisted
\* value is absent, legacy-shaped or already new-shaped; every settings
\* acceptance establishes it; and every event of a running addon keeps it.
C4_NewShapeEstablishedAndKept ==
    [][/\ (InitStep /\ (stored = None \/ LegacyShape(stored) \/ NewShape(stored)))
            => NewShape(config')
       /\ event' = "settings_accepted" => NewShape(config')
       /\ (phase = "running" /\ phase' = "running" /\ NewShape(config))
            => NewShape(config')]_vars

C4_Witness ==
    /\ event = "settings_accepted"
    /\ NewShape(config)
    /\ Len(shown) = 1
    /\ document_head # <<>>

\* C5: theme resolution returns config.dark_theme in night mode and
\* config.light_theme otherwise when that key is present, {"#000000", 30}
\* resp. {"#ffffff", 15} when it is missing; it never raises, and the
\* handlers that resolve the theme leave the config as it is.
C5_ThemeResolution ==
    /\ [](phase = "running" =>
            \A is_dark \in BOOLEAN :
                LET got == get_current_theme_config(config, is_dark)
                IN  /\ got # AttributeError
                    /\ (is_dark /\ "dark_theme" \in DOMAIN config)
                          => got = config.dark_theme
                    /\ (~is_dark /\ "light_theme" \in DOMAIN config)
                          => got = config.light_theme
                    /\ (is_dark /\ "dark_theme" \notin DOMAIN config)
                          => got = [color |-> Black, alpha |-> 30]
                    /\ (~is_dark /\ "light_theme" \notin DOMAIN config)
                          => got = [color |-> White, alpha |-> 15])
    /\ [][event' \in {"content_request", "theme_change", "finished_screen"}
            => config' = config]_vars

C5_Witness ==
    /\ event = "theme_change"
    /\ mw_web
    /\ ~night_mode
    /\ config # None
    /\ "light_theme" \notin DOMAIN config
    /\ "dark_theme" \in DOMAIN config
    /\ document_head[Len(document_head)] =
          [id |-> ThemeStyleId,
           textContent |-> [r |-> 255, g |-> 255, b |-> 255, alpha |-> 15]]

\* C6: in one main-webview document, a finished-screen injection appends one
\* style element without id and removes nothing, so n finished-screen events
\* leave n such elements; a theme-change injection removes the element with
\* id transparent-overlay-theme-style if there is one and appends a new one
\* with that id, so there is never more than one, and from the first
\* theme-change on exactly one.
C6_StyleElements ==
    /\ [](Cardinality(StylesWithId(document_head, NoId)) = finished_events)
    /\ [](Cardinality(StylesWithId(document_head, ThemeStyleId)) <= 1)
    /\ [][/\ finished_events' = finished_events + 1 =>
               /\ Len(document_head') = Len(document_head) + 1
               /\ SubSeq(document_head', 1, Len(document_head)) = document_head
               /\ document_head'[Len(document_head')].id = NoId
          /\ (event' = "theme_change" /\ mw_web) =>
               /\ Cardinality(StylesWithId(document_head', ThemeStyleId)) = 1
               /\ document_head'[Len(document_head')].id = ThemeStyleId
               /\ Cardinality(StylesWithId(document_head', NoId)) =
                     Cardinality(StylesWithId(document_head, NoId))
          /\ (phase' = "running"
                /\ Cardinality(StylesWithId(document_head, ThemeStyleId)) = 1) =>
               Cardinality(StylesWithId(document_head', ThemeStyleId)) = 1]_vars

C6_Witness ==
    /\ event = "theme_change"
    /\ finished_events = 2
    /\ Len(document_head) = 3
    /\ document_head[1].id = NoId
    /\ document_head[2].id = NoId
    /\ document_head[3].id = ThemeStyleId
    /\ document_head[3].textContent # document_head[1].textContent

UneditedAccept ==
    /\ event' = "settings_accepted"
    /\ config' = get_config(edited_dialog(stored, NoEdits))

\* the colour (as r, g, b) and the alpha that the injectors take from what
\* get_current_theme_config returns for config `cfg` and night mode `mode`
Resolved(cfg, mode) == background_color(get_current_theme_config(cfg, mode))

\* C11: accepting the settings dialog without editing any colour or slider
\* does not change what theme resolution returns: for both values of the
\* night-mode flag, get_current_theme_config gives the same colour and alpha
\* on the config after the acceptance as on the config before it.
C11_UneditedAcceptKeepsResolution ==
    [][UneditedAccept =>
           \A mode \in BOOLEAN : Resolved(config', mode) = Resolved(config, mode)
      ]_vars

(***************************************************************************)
(* scripts/check_anki_updates.py                                           *)
(***************************************************************************)

\* s.lstrip(c): every leading c is removed
RECURSIVE lstrip(_, _)
lstrip(s, c) ==
    IF s # <<>> /\ Head(s) = c THEN lstrip(Tail(s), c) ELSE s

\* s.count(c)
count(s, c) == Cardinality({i \in 1..Len(s) : s[i] = c})

\* what a function returns or raises
Returns(v) == [raised |-> "none", value |-> v]
Raise(exception) == [raised |-> exception, value |-> FALSE]

\* ---- the files ----
Absent == [exists |-> FALSE]
\* CHECK_FILE holding datetime t in isoformat, or text that is no isoformat
Timestamp(t) == [exists |-> TRUE, iso |-> TRUE, t |-> t]
NotIso == [exists |-> TRUE, iso |-> FALSE]

TwoHours == 2

\* was_recently_checked: IOError and ValueError are caught and give False
was_recently_checked(cf, io, now_) ==
    IF ~cf.exists THEN FALSE
    ELSE IF "read_check" \in io THEN FALSE
    ELSE IF ~cf.iso THEN FALSE
    ELSE now_ - cf.t < TwoHours

\* mark_checked: the file then holds datetime.now(); open() may raise IOError
mark_checked(io, now_) ==
    IF "write_check" \in io THEN Raise("IOError") ELSE Returns(Timestamp(now_))

\* the entries (blur_version, info) of a version mapping
Entry(anki_version) == [kind |-> "version", anki_version |-> anki_version]
NoVersionEntry == [kind |-> "no_version"]            \* info has no 'anki_version'
NotStrVersionEntry == [kind |-> "version_not_str"]   \* info['anki_version'] is a number
NotDictEntry == [kind |-> "not_dict"]                \* info is a string

\* the parsed JSON of VERSION_FILE: an object with these entries, or an array
JsonObject(entries) == [top |-> "dict", entries |-> entries]
JsonArray == [top |-> "list", entries |-> <<>>]

\* VERSION_FILE: absent, text that is no JSON, bytes that are no text, or JSON
VersionFile(json) == [exists |-> TRUE, content |-> "json", json |-> json]
NotJsonFile == [exists |-> TRUE, content |-> "not_json", json |-> JsonArray]
UndecodableFile == [exists |-> TRUE, content |-> "undecodable", json |-> JsonArray]

\* mutant: the IOError of open() is not caught
load_version_mapping_io_error_raised(vf, io) ==
    IF ~vf.exists THEN Returns(JsonObject(<<>>))
    ELSE IF "read_version" \in io THEN Raise("IOError")
    ELSE IF vf.content = "not_json" THEN Returns(JsonObject(<<>>))
    ELSE IF vf.content = "undecodable" THEN Raise("UnicodeDecodeError")
    ELSE Returns(vf.json)

\* load_version_mapping: IOError and JSONDecodeError are caught and give {};
\* a UnicodeDecodeError of f.read() is neither
load_version_mapping(vf, io) ==
    IF ~vf.exists THEN Returns(JsonObject(<<>>))
    ELSE IF "read_version" \in io THEN Returns(JsonObject(<<>>))
    ELSE IF vf.content = "not_json" THEN Returns(JsonObject(<<>>))
    ELSE IF vf.content = "undecodable" THEN Raise("UnicodeDecodeError")
    ELSE Returns(vf.json)

\* the loop of version_already_built over the entries, in order
RECURSIVE already_built_loop(_, _)
already_built_loop(anki_version, entries) ==
    IF entries = <<>> THEN Returns(FALSE)
    ELSE LET info == Head(entries)
         IN  IF info.kind = "not_dict" THEN Raise("AttributeError")
             ELSE IF info.kind = "version_not_str" THEN Raise("AttributeError")
             ELSE IF lstrip(IF info.kind = "version" THEN info.anki_version ELSE <<>>,
                            "v") = anki_version
                  THEN Returns(TRUE)
                  ELSE already_built_loop(anki_version, Tail(entries))

\* version_already_built
version_already_built(anki_version, version_mapping) ==
    IF version_mapping.top # "dict"
    THEN Raise("AttributeError")
    ELSE already_built_loop(lstrip(anki_version, "v"), version_mapping.entries)

significant_keywords ==
    {"major", "breaking", "new feature", "ui change", "interface",
     "rework", "rewrite", "overhaul"}

\* mutant: a tag with three dots still counts as significant
is_significant_release_three_dots(release) ==
    IF {"tag_name", "name", "body", "prerelease"} \subseteq DOMAIN release
    THEN IF release.prerelease THEN Returns(FALSE)
         ELSE IF count(release.tag_name, ".") > 3 THEN Returns(FALSE)
         ELSE Returns(TRUE)
    ELSE Raise("KeyError")

\* is_significant_release; name and body are the words of the text, <<>> for
\* null or ''
is_significant_release(release) ==
    IF {"tag_name", "name", "body", "prerelease"} \subseteq DOMAIN release
    THEN LET tag  == release.tag_name
             name == IF release.name # <<>> THEN release.name ELSE tag
             body == release.body
             text_to_check == name \o <<" ">> \o body
         IN  IF release.prerelease THEN Returns(FALSE)
             ELSE IF count(tag, ".") > 2 THEN Returns(FALSE)
             ELSE IF \E i \in 1..Len(text_to_check) :
                        text_to_check[i] \in significant_keywords
                  THEN Returns(TRUE)
                  ELSE Returns(TRUE)
    ELSE Raise("KeyError")

\* get_latest_anki_release: requests.get and raise_for_status raise a
\* RequestException, response.json() a JSONDecodeError
get_latest_anki_release(resp) ==
    IF resp.kind = "json" THEN Returns(resp.release) ELSE Raise(resp.kind)

Output(name, value) == [name |-> name, value |-> value]

\* set_github_output for each of `items` in turn, after the calls `done`; with
\* GITHUB_OUTPUT set to a file that cannot be opened the first call raises
set_github_outputs(done, items, io) ==
    IF items # <<>> /\ "write_output" \in io
    THEN [raised |-> "IOError", outputs |-> done]
    ELSE [raised |-> "none", outputs |-> done \o items]

\* how a run of main() ends
Ended(outs, req, mark, err, status, cf) ==
    [outputs |-> outs, requested |-> req, marked |-> mark, error |-> err,
     exit_status |-> status, check_file |-> cf]

\* mutant: only the RequestException clause exits with 1
except_exit_status_request_only(err) ==
    IF err = "RequestException" THEN 1 ELSE 0

\* the except clauses of main: both call sys.exit(1)
except_exit_status(err) ==
    IF err = "RequestException" THEN 1 ELSE 1

\* the interpreter's exit status: 0 when main returns, 1 for an uncaught exception
interpreter_exit_status(err) == IF err = "none" THEN 0 ELSE 1

\* mark_checked() and the return that follows it (lines 167-168 and 186)
mark_and_return(outs, cf, io, now_) ==
    LET m == mark_checked(io, now_)
    IN  IF m.raised # "none"
        THEN Ended(outs, TRUE, FALSE, m.raised, except_exit_status(m.raised), cf)
        ELSE Ended(outs, TRUE, TRUE, "none", interpreter_exit_status("none"), m.value)

\* the try block of main, once latest_release is there
decide(latest_release, cf, io, vf, now_) ==
    LET Fail(outs, err) == Ended(outs, TRUE, FALSE, err, except_exit_status(err), cf)
    IN  IF "tag_name" \notin DOMAIN latest_release THEN Fail(<<>>, "KeyError")
        ELSE
        LET anki_version == latest_release.tag_name
            version_mapping == load_version_mapping(vf, io)
        IN  IF version_mapping.raised # "none" THEN Fail(<<>>, version_mapping.raised)
            ELSE
            LET built == version_already_built(anki_version, version_mapping.value)
            IN  IF built.raised # "none" THEN Fail(<<>>, built.raised)
                ELSE IF built.value
                THEN LET w == set_github_outputs(<<>>,
                                  <<Output("new_release", "false"),
                                    Output("needs_review", "false")>>, io)
                     IN  IF w.raised # "none" THEN Fail(w.outputs, w.raised)
                         ELSE mark_and_return(w.outputs, cf, io, now_)
                ELSE
                LET significant == is_significant_release(latest_release)
                IN  IF significant.raised # "none" THEN Fail(<<>>, significant.raised)
                    ELSE
                    LET w == set_github_outputs(<<>>,
                                 <<Output("new_release",
                                          IF significant.value THEN "true" ELSE "false"),
                                   Output("needs_review",
                                          IF significant.value THEN "false" ELSE "true"),
                                   Output("anki_version", anki_version)>>, io)
                    IN  IF w.raised # "none" THEN Fail(w.outputs, w.raised)
                        ELSE IF "html_url" \notin DOMAIN latest_release
                        THEN Fail(w.outputs, "KeyError")
                        ELSE
                        LET w2 == set_github_outputs(w.outputs,
                                      <<Output("changes_url", latest_release.html_url)>>,
                                      io)
                        IN  IF w2.raised # "none" THEN Fail(w2.outputs, w2.raised)
                            ELSE mark_and_return(w2.outputs, cf, io, now_)

\* main()
main_run(force, cf, io, vf, resp, now_) ==
    IF ~force /\ was_recently_checked(cf, io, now_)
    THEN \* lines 147-150, outside the try block
         LET w == set_github_outputs(<<>>,
                      <<Output("new_release", "false"),
                        Output("needs_review", "false")>>, io)
         IN  Ended(w.outputs, FALSE, FALSE, w.raised,
                   interpreter_exit_status(w.raised), cf)
    ELSE LET latest_release == get_latest_anki_release(resp)
         IN  IF latest_release.raised # "none"
             THEN Ended(<<>>, TRUE, FALSE, latest_release.raised,
                        except_exit_status(latest_release.raised), cf)
             ELSE decide(latest_release.value, cf, io, vf, now_)

(***************************************************************************)
(* The script's runs                                                       *)
(***************************************************************************)

MaxClock == 2      \* hours the model's clock runs to
MaxIoErrors == 1   \* file operations that fail in one run

Tag_1_1     == <<"1", ".", "1">>                       \* "1.1"
Tag_v1_1    == <<"v", "1", ".", "1">>                  \* "v1.1"
Tag_vv1_1   == <<"v", "v", "1", ".", "1">>             \* "vv1.1"
Tag_1_1_1_1 == <<"1", ".", "1", ".", "1", ".", "1">>   \* "1.1.1.1"
Tag_v       == <<"v">>                                 \* "v"

Tags == {Tag_1_1, Tag_v1_1, Tag_vv1_1, Tag_1_1_1_1, Tag_v}

ReleaseKeys == {"tag_name", "name", "body", "prerelease", "html_url"}

Release(tag, prerelease, body) ==
    [tag_name |-> tag, name |-> <<>>, body |-> body, prerelease |-> prerelease,
     html_url |-> "https://github.com/ankitects/anki/releases/latest"]

\* the releases of the API, and releases with one key missing
Releases ==
    {Release(tag, prerelease, <<>>) : tag \in Tags, prerelease \in BOOLEAN}
    \cup
    {Release(Tag_1_1, FALSE, <<"major", "rework">>),
     Release(Tag_1_1_1_1, FALSE, <<"bug", "fixes">>)}
    \cup
    {[k \in ReleaseKeys \ {missing} |-> Release(tag, FALSE, <<>>)[k]] :
        tag \in {Tag_1_1, Tag_1_1_1_1}, missing \in ReleaseKeys}

Responses ==
    {[kind |-> "RequestException"], [kind |-> "JSONDecodeError"]}
    \cup {[kind |-> "json", release |-> r] : r \in Releases}

VersionFiles ==
    {Absent, NotJsonFile, UndecodableFile, VersionFile(JsonArray)}
    \cup
    {VersionFile(JsonObject(entries)) :
        entries \in {<<>>,
                     <<Entry(Tag_1_1)>>,
                     <<Entry(Tag_v1_1)>>,
                     <<NoVersionEntry>>,
                     <<NotDictEntry>>,
                     <<NotStrVersionEntry>>,
                     <<Entry(Tag_1_1), NotDictEntry>>,
                     <<NotDictEntry, Entry(Tag_1_1)>>}}

FileOperations == {"read_check", "write_check", "read_version", "write_output"}

IoErrors == {io \in SUBSET FileOperations : Cardinality(io) <= MaxIoErrors}

addon_parked ==
    /\ phase = "parked"
    /\ config = None
    /\ stored = None
    /\ night_mode = FALSE
    /\ mw_web = FALSE
    /\ document_head = <<>>
    /\ web_content_head = <<>>
    /\ shown = <<>>
    /\ writes = 0
    /\ event = "none"
    /\ finished_events = 0

\* before a run: nothing of the run is there yet
NoRun ==
    /\ force_check = FALSE
    /\ io_errors = {}
    /\ version_file = Absent
    /\ response = [kind |-> "none"]
    /\ outputs = <<>>
    /\ requested = FALSE
    /\ marked = FALSE
    /\ error = "none"
    /\ exit_status = 0 - 1

ScriptStart ==
    /\ pc = "start"
    /\ now = 0
    /\ check_file \in {Absent, NotIso, Timestamp(0)}
    /\ NoRun

ScriptInit == ScriptStart /\ addon_parked

\* one run of main(), in the environment (force, io, vf, resp)
main(force, io, vf, resp) ==
    /\ pc = "start"
    /\ \E run \in {main_run(force, check_file, io, vf, resp, now)} :
           /\ outputs' = run.outputs
           /\ requested' = run.requested
           /\ marked' = run.marked
           /\ error' = run.error
           /\ exit_status' = run.exit_status
           /\ check_file' = run.check_file
    /\ force_check' = force
    /\ io_errors' = io
    /\ version_file' = vf
    /\ response' = resp
    /\ pc' = "done"
    /\ UNCHANGED now
    /\ UNCHANGED addon_vars

\* the workflow is scheduled again, `hours` later
NextRun(hours) ==
    /\ pc = "done"
    /\ now + hours <= MaxClock
    /\ now' = now + hours
    /\ pc' = "start"
    /\ UNCHANGED check_file
    /\ force_check' = FALSE
    /\ io_errors' = {}
    /\ version_file' = Absent
    /\ response' = [kind |-> "none"]
    /\ outputs' = <<>>
    /\ requested' = FALSE
    /\ marked' = FALSE
    /\ error' = "none"
    /\ exit_status' = 0 - 1
    /\ UNCHANGED addon_vars

ScriptNext ==
    \/ \E force \in BOOLEAN, io \in IoErrors, vf \in VersionFiles, resp \in Responses :
          main(force, io, vf, resp)
    \/ \E hours \in 0..MaxClock : NextRun(hours)

ScriptSpec == ScriptInit /\ [][ScriptNext]_vars

(***************************************************************************)
(* The script's properties                                                 *)
(***************************************************************************)

\* the step one run of main() takes
MainStep == pc = "start" /\ pc' = "done"

\* the run found a readable last-check timestamp less than 2 hours old
CheckedRecently ==
    /\ check_file.exists
    /\ "read_check" \notin io_errors'
    /\ check_file.iso
    /\ now - check_file.t < 2

\* the run was skipped: not forced, and checked recently
Skipped == ~force_check' /\ CheckedRecently

\* the entries of the mapping the run could read (none when the file is
\* absent, unreadable or no JSON)
ReadableEntries ==
    IF version_file'.exists /\ "read_version" \notin io_errors'
          /\ version_file'.content = "json"
    THEN version_file'.json.entries
    ELSE <<>>

\* what is left of one run, as main_run gives it
RunLeft ==
    [outputs |-> outputs', requested |-> requested', marked |-> marked',
     error |-> error', exit_status |-> exit_status', check_file |-> check_file']

\* two runs that wrote, requested, marked and ended alike (the files they
\* started from may differ)
SameRun(a, b) ==
    /\ a.outputs = b.outputs
    /\ a.requested = b.requested
    /\ a.marked = b.marked
    /\ a.error = b.error
    /\ a.exit_status = b.exit_status
    /\ a.marked => a.check_file = b.check_file

OutputIndexes(outs, name) == {i \in 1..Len(outs) : outs[i].name = name}

\* name was written exactly once, with value `value`
WrittenOnce(outs, name, value) ==
    /\ Cardinality(OutputIndexes(outs, name)) = 1
    /\ \A i \in OutputIndexes(outs, name) : outs[i].value = value

\* C8: a run whose release request fails, or in which any other exception is
\* raised (malformed release JSON, malformed mapping entry, a failure
\* writing an output or the last-check file), ends with exit status 1.
C8_ErrorsExitWithFailure ==
    [][MainStep =>
         /\ exit_status' \in {0, 1}
         /\ error' # "none" => exit_status' = 1
         /\ (~Skipped /\ response'.kind # "json") => exit_status' = 1
         /\ (~Skipped /\ response'.kind = "json"
               /\ "tag_name" \notin DOMAIN response'.release) => exit_status' = 1
         /\ (~Skipped /\ ReadableEntries # <<>>
               /\ Head(ReadableEntries) \in {NotDictEntry, NotStrVersionEntry})
              => exit_status' = 1
         /\ "write_output" \in io_errors' => exit_status' = 1
         /\ (~Skipped /\ "write_check" \in io_errors') => exit_status' = 1]_vars

C8_Witness ==
    /\ pc = "done"
    /\ error = "KeyError"
    /\ exit_status = 1
    /\ Len(outputs) = 3
    /\ ~marked

\* C9 as claimed: a failure to read or to write the mapping file or the
\* last-check file behaves like the file not existing and does not make the
\* run exit with failure status.
C9_FileFailuresAbsorbed ==
    [][MainStep =>
         /\ "read_check" \in io_errors' =>
               SameRun(RunLeft,
                       main_run(force_check', Absent, io_errors' \ {"read_check"},
                                version_file', response', now))
         /\ "read_version" \in io_errors' =>
               SameRun(RunLeft,
                       main_run(force_check', check_file,
                                io_errors' \ {"read_version"}, Absent, response', now))
         /\ "write_check" \in io_errors' =>
               exit_status' = main_run(force_check', check_file,
                                       io_errors' \ {"write_check"}, version_file',
                                       response', now).exit_status]_vars

\* C9 as amended: a failure to read (IOError) either file behaves like the
\* file not existing and is never the error the run ends with; a failure to
\* write the last-check file ends the run with exit status 1.
C9_ReadFailuresAbsorbed ==
    [][MainStep =>
         /\ "read_check" \in io_errors' =>
               SameRun(RunLeft,
                       main_run(force_check', Absent, io_errors' \ {"read_check"},
                                version_file', response', now))
         /\ "read_version" \in io_errors' =>
               SameRun(RunLeft,
                       main_run(force_check', check_file,
                                io_errors' \ {"read_version"}, Absent, response', now))
         /\ io_errors' \subseteq {"read_check", "read_version"} => error' # "IOError"
         /\ (error' = "IOError" /\ "write_output" \notin io_errors') =>
               /\ "write_check" \in io_errors'
               /\ exit_status' = 1
               /\ check_file' = check_file]_vars

C9_Witness ==
    /\ pc = "done"
    /\ io_errors = {"read_version"}
    /\ version_file = VersionFile(JsonObject(<<Entry(Tag_1_1)>>))
    /\ response = [kind |-> "json", release |-> Release(Tag_1_1, FALSE, <<>>)]
    /\ exit_status = 0
    /\ outputs[1] = Output("new_release", "true")

\* s without one leading 'v'
WithoutLeadingV(s) == IF s # <<>> /\ Head(s) = "v" THEN Tail(s) ELSE s

\* C10's decision table for a run that ended successfully, given whether the
\* release counts as already built
DecisionTable(built) ==
    LET release == response'.release
        significant == ~release.prerelease /\ count(release.tag_name, ".") <= 2
        written(name) == OutputIndexes(outputs', name) # {}
    IN  /\ Cardinality(OutputIndexes(outputs', "new_release")) = 1
        /\ Cardinality(OutputIndexes(outputs', "needs_review")) = 1
        /\ ~(WrittenOnce(outputs', "new_release", "true")
               /\ WrittenOnce(outputs', "needs_review", "true"))
        /\ Skipped =>
              /\ WrittenOnce(outputs', "new_release", "false")
              /\ WrittenOnce(outputs', "needs_review", "false")
              /\ ~requested'
              /\ check_file' = check_file
        /\ (~Skipped /\ built) =>
              /\ WrittenOnce(outputs', "new_release", "false")
              /\ WrittenOnce(outputs', "needs_review", "false")
        /\ (~Skipped /\ ~built) =>
              /\ WrittenOnce(outputs', "new_release",
                             IF significant THEN "true" ELSE "false")
              /\ WrittenOnce(outputs', "needs_review",
                             IF significant THEN "false" ELSE "true")
              /\ WrittenOnce(outputs', "anki_version", release.tag_name)
              /\ WrittenOnce(outputs', "changes_url", release.html_url)
        /\ (Skipped \/ built) =>
              /\ ~written("anki_version")
              /\ ~written("changes_url")
        /\ marked' <=> ~Skipped
        /\ requested' <=> ~Skipped
        /\ check_file' = IF marked' THEN Timestamp(now) ELSE check_file

====
